---- MODULE Spec2Model ----
(***************************************************************************)
(* A model of main.py: the command-line entry point and process_gif, which *)
(* splits a GIF into frames, removes the background of each frame with one *)
(* rembg session and writes the frames into an output directory.           *)
(*                                                                         *)
(* The file system is the output directory: whether it exists and a map    *)
(* from file names to contents.  Pillow, rembg and the operating system    *)
(* are collaborators: each of their calls either succeeds or raises, and   *)
(* the model takes both outcomes at every call.                            *)
(***************************************************************************)
EXTENDS Integers, Sequences, FiniteSets, TLC

\* Largest number of frames of the input container.
MaxFrames == 2

VARIABLES
    \* the run's inputs (fixed by Init)
    input_exists,     \* input_path.exists()
    suffix,           \* input_path.suffix, a sequence of characters
    keep_temp_files,  \* --keep-temp
    model_name,       \* --model, None when absent
    debug,            \* --debug
    nframes,          \* the number of frames the container holds
    dir0,             \* the output directory existed before the run
    files0,           \* the output directory's files before the run
    \* the program's state
    pc,               \* the statement about to run
    log_level,        \* the root logger's level
    log,              \* the log lines emitted, in order
    dirExists,        \* the output directory exists
    files,            \* the output directory: file name -> content
    sessions,         \* the number of calls of new_session that returned
    session,          \* the local variable session
    gifOpen,          \* the container is open
    frame_count,      \* the local variable frame_count
    output_data,      \* the local variable output_data
    removeCalls,      \* the session handed to each call of remove, in order
    unlinks,          \* the calls of temp_frame_path.unlink(): <<frame, outcome>>
    raised,           \* the exception the inner try body raised in this frame
    exc,              \* the exception that is propagating
    result,           \* the value process_gif returned
    exitCode          \* the process's exit code, -1 while it runs

inputs == <<input_exists, suffix, keep_temp_files, model_name, debug, nframes,
            dir0, files0>>
vars == <<input_exists, suffix, keep_temp_files, model_name, debug, nframes,
          dir0, files0, pc, log_level, log, dirExists, files, sessions,
          session, gifOpen, frame_count, output_data, removeCalls, unlinks,
          raised, exc, result, exitCode>>

----------------------------------------------------------------------------
\* Values

None == "<None>"
NoExc == [type |-> "none", step |-> "none"]
NoSession == [id |-> 0, model |-> "none"]
NoData == <<"none", 0>>
NoResult == "none"

Exc(type, step) == [type |-> type, step |-> step]

\* File contents: what was there before the run, the RGBA frame k saved as
\* PNG, what remove() returns for it, and what a write that failed left.
Old == <<"old", 0>>
Partial == <<"partial", 0>>
Raw(k) == <<"rgba", k>>
Removed(bytes) == <<"nobg", bytes[2]>>

Digit == <<"0", "1", "2", "3", "4", "5", "6", "7", "8", "9">>

\* str(n) of a natural number.
RECURSIVE Str(_)
Str(n) == IF n < 10 THEN Digit[n + 1]
          ELSE Str(n \div 10) \o Digit[(n % 10) + 1]

\* f"{n:03d}": zero-padded to three digits, wider when n needs more.
Fmt03d(n) == IF n < 10 THEN "00" \o Str(n)
             ELSE IF n < 100 THEN "0" \o Str(n)
             ELSE Str(n)

TempName(k) == "frame_" \o Fmt03d(k) \o ".png"
OutName(k) == "frame_" \o Fmt03d(k) \o "_bg_removed.png"

\* str.lower() on the characters a suffix is drawn from.
LowerChar(c) == CASE c = "G" -> "g"
                  [] c = "I" -> "i"
                  [] c = "F" -> "f"
                  [] OTHER -> c
Lower(s) == [i \in 1..Len(s) |-> LowerChar(s[i])]

\* The suffixes tried: .gif in three letter cases, another extension, none.
Suffixes == { <<".", "g", "i", "f">>, <<".", "G", "I", "F">>,
              <<".", "G", "i", "f">>, <<".", "p", "n", "g">>, <<>> }

ModelNames == {None, "", "u2net"}

\* The files the output directory may hold before the run.
PreNames == {TempName(1), OutName(1), OutName(MaxFrames), "notes.txt"}

Write(fs, name, content) ==
    [n \in (DOMAIN fs) \cup {name} |-> IF n = name THEN content ELSE fs[n]]
Delete(fs, name) == [n \in (DOMAIN fs) \ {name} |-> fs[n]]

\* logging: a line is emitted when its level reaches the root logger's.
LevelNo == [DEBUG |-> 10, INFO |-> 20, WARNING |-> 30, ERROR |-> 40]
Emit(lg, level, text, arg) ==
    IF LevelNo[level] >= LevelNo[log_level]
    THEN Append(lg, <<level, text, arg>>)
    ELSE lg

----------------------------------------------------------------------------
\* The conditions of process_gif

InputMissingNever(exists) == FALSE
InputMissing(exists) == ~exists

NotGifCaseSensitive(s) == s # <<".", "g", "i", "f">>
NotGif(s) == Lower(s) # <<".", "g", "i", "f">>

SessionModel(m) == IF m # None /\ m # "" THEN m ELSE "default"

CleanupNever(keep) == FALSE
CleanupAlways(keep) == TRUE
Cleanup(keep) == ~keep

\* What leaves a try/finally whose body raised `body` (NoExc when it did not)
\* and whose finally clause raised `fin` (NoExc when it did not).
PropagatedBody(body, fin) == IF body # NoExc THEN body ELSE fin
Propagated(body, fin) == IF fin # NoExc THEN fin ELSE body

----------------------------------------------------------------------------

Init ==
    /\ input_exists \in BOOLEAN
    /\ suffix \in Suffixes
    /\ keep_temp_files \in BOOLEAN
    /\ model_name \in ModelNames
    /\ debug \in BOOLEAN
    /\ nframes \in 1..MaxFrames
    /\ dir0 \in BOOLEAN
    /\ files0 \in IF dir0 THEN UNION {[S -> {Old}] : S \in SUBSET PreNames}
                          ELSE {[n \in {} |-> Old]}
    /\ pc = "main"
    /\ log_level = "WARNING"
    /\ log = <<>>
    /\ dirExists = dir0
    /\ files = files0
    /\ sessions = 0
    /\ session = NoSession
    /\ gifOpen = FALSE
    /\ frame_count = 0
    /\ output_data = NoData
    /\ removeCalls = <<>>
    /\ unlinks = {}
    /\ raised = NoExc
    /\ exc = NoExc
    /\ result = NoResult
    /\ exitCode = -1

\* __main__: parse_args and setup_logging, then the call of process_gif.
MainSetup ==
    /\ pc = "main"
    /\ log_level' = IF debug THEN "DEBUG" ELSE "INFO"
    /\ pc' = "validate"
    /\ UNCHANGED <<inputs, log, dirExists, files, sessions, session, gifOpen,
                   frame_count, output_data, removeCalls, unlinks, raised,
                   exc, result, exitCode>>

\* process_gif: the two checks of the input path.
Validate ==
    /\ pc = "validate"
    /\ IF InputMissing(input_exists)
       THEN /\ exc' = Exc("FileNotFoundError", "validate")
            /\ pc' = "main_except"
       ELSE IF NotGif(suffix)
       THEN /\ exc' = Exc("ValueError", "validate")
            /\ pc' = "main_except"
       ELSE /\ exc' = exc
            /\ pc' = "mkdir"
    /\ UNCHANGED <<inputs, log_level, log, dirExists, files, sessions,
                   session, gifOpen, frame_count, output_data, removeCalls,
                   unlinks, raised, result, exitCode>>

\* output_path.mkdir(parents=True, exist_ok=True) and the two info lines.
MkdirFresh ==
    /\ pc = "mkdir"
    /\ dirExists' = TRUE
    /\ files' = [n \in {} |-> Old]
    /\ log' = Emit(Emit(log, "INFO", "Processing GIF", "input_path"),
                   "INFO", "Output directory", "output_path")
    /\ pc' = "new_session"
    /\ UNCHANGED <<inputs, log_level, sessions, session, gifOpen,
                   frame_count, output_data, removeCalls, unlinks, raised,
                   exc, result, exitCode>>

Mkdir ==
    /\ pc = "mkdir"
    /\ \/ /\ dirExists' = TRUE
          /\ log' = Emit(Emit(log, "INFO", "Processing GIF", "input_path"),
                         "INFO", "Output directory", "output_path")
          /\ pc' = "new_session"
          /\ exc' = exc
       \/ /\ exc' = Exc("OSError", "mkdir")
          /\ pc' = "main_except"
          /\ UNCHANGED <<dirExists, log>>
    /\ UNCHANGED <<inputs, log_level, files, sessions, session, gifOpen,
                   frame_count, output_data, removeCalls, unlinks, raised,
                   result, exitCode>>

\* session = new_session(model_name) if model_name else new_session()
NewSession ==
    /\ pc = "new_session"
    /\ \/ /\ sessions' = sessions + 1
          /\ session' = [id |-> sessions + 1, model |-> SessionModel(model_name)]
          /\ pc' = "open"
          /\ exc' = exc
       \/ /\ exc' = Exc("Exception", "new_session")
          /\ pc' = "main_except"
          /\ UNCHANGED <<sessions, session>>
    /\ UNCHANGED <<inputs, log_level, log, dirExists, files, gifOpen,
                   frame_count, output_data, removeCalls, unlinks, raised,
                   result, exitCode>>

\* with Image.open(input_path) as gif: frame_count = 0; duration = ...
\* (duration is read and never used; it is no part of the state).
OpenGif ==
    /\ pc = "open"
    /\ \/ /\ gifOpen' = TRUE
          /\ frame_count' = 0
          /\ pc' = "iterate"
          /\ exc' = exc
       \/ /\ exc' = Exc("UnidentifiedImageError", "open")
          /\ pc' = "except"
          /\ UNCHANGED <<gifOpen, frame_count>>
    /\ UNCHANGED <<inputs, log_level, log, dirExists, files, sessions,
                   session, output_data, removeCalls, unlinks, raised,
                   result, exitCode>>

\* for frame in ImageSequence.Iterator(gif): the next frame, the counter,
\* the debug line and the conversion to RGBA; or, after the last frame, the
\* info line and the return (the with statement closes the container).
NextFrame ==
    /\ pc = "iterate"
    /\ IF frame_count < nframes
       THEN \/ /\ frame_count' = frame_count + 1
               /\ log' = Emit(log, "DEBUG", "Processing frame",
                              Str(frame_count + 1))
               /\ raised' = NoExc
               /\ pc' = "save_temp"
               /\ UNCHANGED <<gifOpen, exc, result>>
            \/ \* the iterator raises while it seeks the next frame
               /\ exc' = Exc("OSError", "iterate")
               /\ gifOpen' = FALSE
               /\ pc' = "except"
               /\ UNCHANGED <<frame_count, log, raised, result>>
            \/ \* frame.convert("RGBA") raises
               /\ frame_count' = frame_count + 1
               /\ log' = Emit(log, "DEBUG", "Processing frame",
                              Str(frame_count + 1))
               /\ exc' = Exc("OSError", "convert")
               /\ gifOpen' = FALSE
               /\ pc' = "except"
               /\ UNCHANGED <<raised, result>>
       ELSE /\ log' = Emit(log, "INFO", "Successfully processed",
                           Str(frame_count))
            /\ result' = "output_path"
            /\ gifOpen' = FALSE
            /\ pc' = "main_after"
            /\ UNCHANGED <<frame_count, raised, exc>>
    /\ UNCHANGED <<inputs, log_level, dirExists, files, sessions, session,
                   output_data, removeCalls, unlinks, exitCode>>

\* frame.save(temp_frame_path, "PNG")
SaveTemp ==
    /\ pc = "save_temp"
    /\ \/ /\ files' = Write(files, TempName(frame_count), Raw(frame_count))
          /\ pc' = "remove"
          /\ raised' = raised
       \/ \* the file could not be opened for writing
          /\ raised' = Exc("OSError", "save_temp")
          /\ pc' = "finally"
          /\ files' = files
       \/ \* the file was opened (truncated) and the write failed
          /\ raised' = Exc("OSError", "save_temp")
          /\ pc' = "finally"
          /\ files' = Write(files, TempName(frame_count), Partial)
    /\ UNCHANGED <<inputs, log_level, log, dirExists, sessions, session,
                   gifOpen, frame_count, output_data, removeCalls, unlinks,
                   exc, result, exitCode>>

\* with open(temp_frame_path, "rb") as input_file:
\*     output_data = remove(input_file.read(), session=session)
RemoveFreshSession ==
    /\ pc = "remove"
    /\ sessions' = sessions + 1
    /\ session' = [id |-> sessions + 1, model |-> SessionModel(model_name)]
    /\ output_data' = Removed(files[TempName(frame_count)])
    /\ removeCalls' = Append(removeCalls, session')
    /\ pc' = "write_output"
    /\ UNCHANGED <<inputs, log_level, log, dirExists, files, gifOpen,
                   frame_count, unlinks, raised, exc, result, exitCode>>

Remove ==
    /\ pc = "remove"
    /\ \/ /\ output_data' = Removed(files[TempName(frame_count)])
          /\ removeCalls' = Append(removeCalls, session)
          /\ pc' = "write_output"
          /\ raised' = raised
       \/ \* the temp file cannot be read
          /\ raised' = Exc("OSError", "read_temp")
          /\ pc' = "finally"
          /\ UNCHANGED <<output_data, removeCalls>>
       \/ \* remove() raises
          /\ removeCalls' = Append(removeCalls, session)
          /\ raised' = Exc("Exception", "remove")
          /\ pc' = "finally"
          /\ UNCHANGED output_data
    /\ UNCHANGED <<inputs, log_level, log, dirExists, files, sessions,
                   session, gifOpen, frame_count, unlinks, exc, result,
                   exitCode>>

\* with open(output_frame_path, "wb") as output_file:
\*     output_file.write(output_data)
WriteOutput ==
    /\ pc = "write_output"
    /\ \/ /\ files' = Write(files, OutName(frame_count), output_data)
          /\ raised' = raised
       \/ /\ raised' = Exc("OSError", "write_output")
          /\ files' = files
       \/ /\ raised' = Exc("OSError", "write_output")
          /\ files' = Write(files, OutName(frame_count), Partial)
    /\ pc' = "finally"
    /\ UNCHANGED <<inputs, log_level, log, dirExists, sessions, session,
                   gifOpen, frame_count, output_data, removeCalls, unlinks,
                   exc, result, exitCode>>

\* finally: if not keep_temp_files:
\*              with contextlib.suppress(FileNotFoundError):
\*                  temp_frame_path.unlink()
\* and then the next iteration, or the exception leaves the loop and the
\* with statement (which closes the container).
Leave(e) ==
    /\ exc' = e
    /\ IF e = NoExc
       THEN pc' = "iterate" /\ gifOpen' = gifOpen
       ELSE pc' = "except" /\ gifOpen' = FALSE

Finally ==
    /\ pc = "finally"
    /\ IF Cleanup(keep_temp_files)
       THEN \/ /\ TempName(frame_count) \in DOMAIN files
               /\ files' = Delete(files, TempName(frame_count))
               /\ unlinks' = unlinks \cup {<<frame_count, "removed">>}
               /\ Leave(Propagated(raised, NoExc))
            \/ \* FileNotFoundError, suppressed
               /\ TempName(frame_count) \notin DOMAIN files
               /\ files' = files
               /\ unlinks' = unlinks \cup {<<frame_count, "absent">>}
               /\ Leave(Propagated(raised, NoExc))
            \/ \* any other OSError
               /\ files' = files
               /\ unlinks' = unlinks \cup {<<frame_count, "error">>}
               /\ Leave(Propagated(raised, Exc("OSError", "unlink")))
       ELSE /\ UNCHANGED <<files, unlinks>>
            /\ Leave(Propagated(raised, NoExc))
    /\ UNCHANGED <<inputs, log_level, log, dirExists, sessions, session,
                   frame_count, output_data, removeCalls, raised, result,
                   exitCode>>

\* except Exception as e: logging.error(...); raise
ExceptSilent ==
    /\ pc = "except"
    /\ pc' = "main_except"
    /\ UNCHANGED <<inputs, log_level, log, dirExists, files, sessions,
                   session, gifOpen, frame_count, output_data, removeCalls,
                   unlinks, raised, exc, result, exitCode>>

ExceptRollback ==
    /\ pc = "except"
    /\ log' = Emit(log, "ERROR", "Error processing GIF", exc.type)
    /\ files' = files0
    /\ pc' = "main_except"
    /\ UNCHANGED <<inputs, log_level, dirExists, sessions, session, gifOpen,
                   frame_count, output_data, removeCalls, unlinks, raised,
                   exc, result, exitCode>>

Except ==
    /\ pc = "except"
    /\ log' = Emit(log, "ERROR", "Error processing GIF", exc.type)
    /\ pc' = "main_except"
    /\ UNCHANGED <<inputs, log_level, dirExists, files, sessions, session,
                   gifOpen, frame_count, output_data, removeCalls, unlinks,
                   raised, exc, result, exitCode>>

\* __main__: except Exception as e: logging.error(...); exit(1)
MainExceptExit0 ==
    /\ pc = "main_except"
    /\ log' = Emit(log, "ERROR", "Failed to process GIF", exc.type)
    /\ exitCode' = 0
    /\ pc' = "exited"
    /\ UNCHANGED <<inputs, log_level, dirExists, files, sessions, session,
                   gifOpen, frame_count, output_data, removeCalls, unlinks,
                   raised, exc, result>>

MainExcept ==
    /\ pc = "main_except"
    /\ log' = Emit(log, "ERROR", "Failed to process GIF", exc.type)
    /\ exitCode' = 1
    /\ pc' = "exited"
    /\ UNCHANGED <<inputs, log_level, dirExists, files, sessions, session,
                   gifOpen, frame_count, output_data, removeCalls, unlinks,
                   raised, exc, result>>

\* __main__: process_gif returned; the script ends.
MainEnd ==
    /\ pc = "main_after"
    /\ exitCode' = 0
    /\ pc' = "exited"
    /\ UNCHANGED <<inputs, log_level, log, dirExists, files, sessions,
                   session, gifOpen, frame_count, output_data, removeCalls,
                   unlinks, raised, exc, result>>

Next ==
    \/ MainSetup
    \/ Validate
    \/ Mkdir
    \/ NewSession
    \/ OpenGif
    \/ NextFrame
    \/ SaveTemp
    \/ Remove
    \/ WriteOutput
    \/ Finally
    \/ Except
    \/ MainExcept
    \/ MainEnd

Spec == Init /\ [][Next]_vars

----------------------------------------------------------------------------
\* Vocabulary of the properties

\* process_gif returned to its caller.
Returned == result # NoResult

\* The exception has left process_gif (it is with the caller).
AtCaller == pc \in {"main_except", "exited"} /\ exc # NoExc

\* The extension is .gif in some letter case.
IsGifAnyCase(s) ==
    /\ Len(s) = 4
    /\ s[1] = "."
    /\ s[2] \in {"g", "G"}
    /\ s[3] \in {"i", "I"}
    /\ s[4] \in {"f", "F"}

NoSideEffect ==
    /\ dirExists = dir0
    /\ files = files0
    /\ sessions = 0
    /\ session = NoSession
    /\ removeCalls = <<>>

\* The lines process_gif's handler wrote for the exception e.
ProcessErrorLines(e) ==
    {i \in 1..Len(log) : log[i] = <<"ERROR", "Error processing GIF", e.type>>}
MainErrorLines(e) ==
    {i \in 1..Len(log) : log[i] = <<"ERROR", "Failed to process GIF", e.type>>}

\* Steps 1 to 5 of the processing algorithm, and those the try statement holds.
Step1 == {"new_session"}
Steps2to5 == {"open", "iterate", "convert", "save_temp", "read_temp",
              "remove", "write_output", "unlink"}
Steps4cTo4e == {"save_temp", "read_temp", "remove", "write_output"}

\* The frame at which a failed run failed (0 when it failed before the loop).
FailFrame == IF exc.step = "iterate" THEN frame_count + 1 ELSE frame_count

\* The frames whose iteration ran to its end without an exception.
CompletedFrames ==
    IF exc = NoExc \/ exc.step = "iterate"
    THEN 1..frame_count
    ELSE 1..(frame_count - 1)

FrameFileNames(n) == {TempName(k) : k \in 1..n} \cup {OutName(k) : k \in 1..n}

----------------------------------------------------------------------------
\* C1 as stated: after a run with default options that returned, the output
\* directory holds exactly the nframes files frame_NNN_bg_removed.png and no
\* temp file.
C1_Original ==
    (Returned /\ ~keep_temp_files) =>
        /\ DOMAIN files = {OutName(k) : k \in 1..nframes}
        /\ Cardinality(DOMAIN files) = nframes

\* C1, amended: the same, for an output directory that was absent or held no
\* file before the run; the first file is frame_001_bg_removed.png.
C1_Theorem ==
    (Returned /\ ~keep_temp_files /\ DOMAIN files0 = {}) =>
        /\ DOMAIN files = {OutName(k) : k \in 1..nframes}
        /\ Cardinality(DOMAIN files) = nframes
        /\ "frame_001_bg_removed.png" \in DOMAIN files
        /\ \A k \in 1..nframes : TempName(k) \notin DOMAIN files

C1_Witness ==
    /\ pc = "exited"
    /\ Returned
    /\ ~keep_temp_files
    /\ DOMAIN files0 = {}
    /\ nframes = MaxFrames
    /\ Cardinality(DOMAIN files) = MaxFrames

\* C2 as stated: after a run with keep_temp_files that returned, the output
\* directory holds exactly 2 * nframes files: for every k both frame_k.png,
\* holding the converted frame, and frame_k_bg_removed.png.
C2_Original ==
    (Returned /\ keep_temp_files) =>
        /\ Cardinality(DOMAIN files) = 2 * nframes
        /\ \A k \in 1..nframes :
            /\ TempName(k) \in DOMAIN files
            /\ OutName(k) \in DOMAIN files
            /\ files[TempName(k)] = Raw(k)

\* C2, amended: the same, for an output directory that was absent or held no
\* file before the run.
C2_Theorem ==
    (Returned /\ keep_temp_files /\ DOMAIN files0 = {}) =>
        /\ Cardinality(DOMAIN files) = 2 * nframes
        /\ DOMAIN files = FrameFileNames(nframes)
        /\ "frame_001.png" \in DOMAIN files
        /\ \A k \in 1..nframes :
            /\ files[TempName(k)] = Raw(k)
            /\ files[OutName(k)] = Removed(Raw(k))

C2_Witness ==
    /\ pc = "exited"
    /\ Returned
    /\ keep_temp_files
    /\ DOMAIN files0 = {}
    /\ nframes = MaxFrames
    /\ Cardinality(DOMAIN files) = 2 * MaxFrames

\* C3: with an input path that does not exist, process_gif raises
\* FileNotFoundError and nothing else happens: the output directory is not
\* created, no session is created and no file is written, whatever the
\* other arguments are.
C3_Theorem ==
    ~input_exists =>
        /\ NoSideEffect
        /\ pc \notin {"main", "validate"} =>
              /\ pc \in {"main_except", "exited"}
              /\ exc = Exc("FileNotFoundError", "validate")
              /\ ~Returned

C3_Witness ==
    /\ ~input_exists
    /\ pc = "main_except"
    /\ exc.type = "FileNotFoundError"
    /\ IsGifAnyCase(suffix)
    /\ ~dir0
    /\ ~dirExists

\* C4: with an existing input path whose extension is not .gif in any letter
\* case, process_gif raises ValueError before any work is done (no output
\* directory, no session, no file); an existing path whose extension is .gif
\* in any letter case passes validation.
C4_Theorem ==
    input_exists =>
        /\ ~IsGifAnyCase(suffix) =>
              /\ NoSideEffect
              /\ pc \notin {"main", "validate"} =>
                    /\ pc \in {"main_except", "exited"}
                    /\ exc = Exc("ValueError", "validate")
                    /\ ~Returned
        /\ IsGifAnyCase(suffix) =>
              /\ exc.step # "validate"
              /\ pc \notin {"main", "validate", "mkdir"} =>
                    (dirExists \/ exc.step = "mkdir")

C4_Witness ==
    /\ input_exists
    /\ suffix = <<".", "G", "i", "f">>
    /\ pc = "new_session"
    /\ ~dir0
    /\ dirExists

C6_Original ==
    (pc = "except" /\ raised # NoExc /\ ~keep_temp_files) =>
        /\ \E o \in {"removed", "absent", "error"} :
              <<frame_count, o>> \in unlinks
        /\ exc = raised

\* C6, amended: the deletion is attempted, and the exception that leaves the
\* iteration is the one steps 4c to 4e raised when the deletion succeeds or
\* finds the file absent; when the deletion fails otherwise, the deletion's
\* exception leaves the iteration in its place.
C6_Theorem ==
    (pc = "except" /\ raised # NoExc) =>
        /\ raised.step \in Steps4cTo4e
        /\ keep_temp_files =>
              /\ \A u \in unlinks : u[1] # frame_count
              /\ exc = raised
        /\ ~keep_temp_files =>
              /\ Cardinality({u \in unlinks : u[1] = frame_count}) = 1
              /\ <<frame_count, "removed">> \in unlinks =>
                    exc = raised /\ TempName(frame_count) \notin DOMAIN files
              /\ <<frame_count, "absent">> \in unlinks =>
                    exc = raised /\ TempName(frame_count) \notin DOMAIN files
              /\ <<frame_count, "error">> \in unlinks =>
                    exc = Exc("OSError", "unlink")

C6_Witness ==
    /\ pc = "except"
    /\ raised.step = "remove"
    /\ ~keep_temp_files
    /\ <<frame_count, "error">> \in unlinks
    /\ exc.step = "unlink"

C6_WitnessOriginalKept ==
    /\ pc = "except"
    /\ raised.step = "write_output"
    /\ ~keep_temp_files
    /\ <<frame_count, "removed">> \in unlinks
    /\ exc = raised

\* C7: a run that fails at frame k processes no frame after k, and the
\* final files of the frames before k are on disk as they were written, up
\* to and including the end of the run.
C7_Theorem ==
    (exc # NoExc /\ exc.step \in Steps2to5) =>
        /\ pc \in {"except", "main_except", "exited"}
        /\ pc = "exited" => exitCode = 1
        /\ ~Returned
        /\ Len(removeCalls) <= FailFrame
        /\ \A j \in 1..nframes :
            /\ j < FailFrame =>
                  /\ OutName(j) \in DOMAIN files
                  /\ files[OutName(j)] = Removed(Raw(j))
            /\ j > FailFrame =>
                  /\ \A n \in {TempName(j), OutName(j)} :
                        /\ n \in DOMAIN files <=> n \in DOMAIN files0
                        /\ n \in DOMAIN files => files[n] = files0[n]
                  /\ \A u \in unlinks : u[1] # j

C7_Witness ==
    /\ pc = "exited"
    /\ exitCode = 1
    /\ exc.step = "remove"
    /\ frame_count = MaxFrames
    /\ FailFrame > 1
    /\ OutName(1) \in DOMAIN files0
    /\ files[OutName(1)] = Removed(Raw(1))

C8_WitnessSuccess ==
    /\ pc = "exited"
    /\ exitCode = 0
    /\ frame_count = MaxFrames

\* C9: a run creates at most one session, after validation and before the
\* container is opened or a frame is processed; every call of remove in the
\* run is given that session, which is the named model's when a model name
\* is given and the default one when none is.
C9_Theorem ==
    /\ sessions <= 1
    /\ sessions = 0 <=> session = NoSession
    /\ sessions = 1 =>
          /\ session.id = 1
          /\ input_exists /\ IsGifAnyCase(suffix) /\ dirExists
          /\ pc \notin {"main", "validate", "mkdir", "new_session"}
          /\ model_name = "u2net" => session.model = "u2net"
          /\ model_name = None => session.model = "default"
    /\ (gifOpen \/ frame_count > 0 \/ removeCalls # <<>>) => sessions = 1
    /\ pc \in {"open", "iterate", "save_temp", "remove", "write_output",
               "finally"} => sessions = 1
    /\ \A i \in 1..Len(removeCalls) : removeCalls[i] = session

C9_Witness ==
    /\ Len(removeCalls) = MaxFrames
    /\ model_name = "u2net"
    /\ sessions = 1
    /\ Returned

\* C10 as stated: at the end of a run, for every frame index k the run
\* reached, a frame_k.png that was there before is overwritten (and deleted
\* unless keep_temp_files), a frame_k_bg_removed.png that was there before
\* is overwritten, and every other file that was there before is unchanged.
C10_Original ==
    pc = "exited" =>
        /\ \A k \in 1..frame_count :
            /\ TempName(k) \in DOMAIN files0 =>
                  IF keep_temp_files
                  THEN TempName(k) \in DOMAIN files /\ files[TempName(k)] # Old
                  ELSE TempName(k) \notin DOMAIN files
            /\ OutName(k) \in DOMAIN files0 =>
                  OutName(k) \in DOMAIN files /\ files[OutName(k)] # Old
        /\ \A n \in (DOMAIN files0) \ FrameFileNames(frame_count) :
              n \in DOMAIN files /\ files[n] = files0[n]

\* C10, amended: the same for every frame index k whose iteration ran to its
\* end without an exception (the files of the frame at which a run fails may
\* or may not have been touched); every file that was there before and is
\* not named after a frame the run reached is unchanged at every moment.
C10_Theorem ==
    /\ pc = "exited" =>
          \A k \in CompletedFrames :
            /\ IF keep_temp_files
               THEN TempName(k) \in DOMAIN files /\ files[TempName(k)] = Raw(k)
               ELSE TempName(k) \notin DOMAIN files
            /\ OutName(k) \in DOMAIN files
            /\ files[OutName(k)] = Removed(Raw(k))
    /\ \A n \in (DOMAIN files0) \ FrameFileNames(frame_count) :
          n \in DOMAIN files /\ files[n] = files0[n]

C10_Witness ==
    /\ pc = "exited"
    /\ DOMAIN files0 = PreNames
    /\ 1 \in CompletedFrames
    /\ frame_count = 1
    /\ nframes = MaxFrames
    /\ ~keep_temp_files
    /\ TempName(1) \notin DOMAIN files
    /\ files[OutName(1)] = Removed(Raw(1))
    /\ files["notes.txt"] = Old

====
